---------------------------- MODULE Spec2Model ----------------------------
(***************************************************************************)
(* Model of the streaming bridge of xk6-connectrpc (stream.go and the      *)
(* stream constructor of connectrpc.go).                                   *)
(*                                                                         *)
(* Three threads of control are modelled:                                  *)
(*   js : the single cooperative script thread; it runs the script's       *)
(*        write()/end()/close() calls and, when idle, the tasks of the     *)
(*        task queue (the listeners);                                      *)
(*   ww : the writeLoop goroutine started by beginStream;                  *)
(*   rl : the readLoop goroutine started by processMessage.                *)
(* Channel operations follow the Go runtime: a goroutine parked in a       *)
(* select is released by the first event that makes one of its cases       *)
(* ready, so a send on the unbuffered writeQueueCh pairs with a receiver   *)
(* only while done is still open (closing done releases every parked       *)
(* select through its done case).  A panic of any goroutine ends the       *)
(* process: no action is enabled once panicked is set.                     *)
(***************************************************************************)
EXTENDS Integers, Sequences, FiniteSets

\* ------------------------------------------------------------- bounds
MaxCalls == 3           \* write(), end() and close() calls of the script
MaxResp  == 1           \* responses the peer may deliver
MaxListeners == 3       \* on() calls of the script
MaxIterations == 1      \* iterations of the VU after the first
MaxEmits == 2           \* events emitted to the listeners

\* ---------------------------------------------------------- constants
\* writingState values (const block of stream.go: opened = iota + 1, closed)
opened == 1
closed == 2

\* Errors thrown into the script by write()
ErrClosedForWriting == "cannot write to a closed stream"
ErrMarshal          == "failed to marshal message"
ErrStreamClosed     == "stream is closed"

\* The script values handed to write(): an object matching the input
\* schema, null/undefined, an object that cannot be marshalled to JSON
\* (cyclic), and an object whose JSON does not match the input schema.
Values == {"valid", "null", "cyclic", "badschema"}

\* Outcomes of connectStream.Send
SendOutcomes == {"ok", "fail", "canceled"}

\* Outcomes of connectStream.Receive: a message, a message that
\* protojson.Marshal rejects (badmsg), io.EOF, a connect error with message
\* "EOF", a connect error with message "unexpected EOF" (the connection
\* broke in the middle of the stream), a cancellation, and any other
\* connect error
RecvOutcomes == {"msg", "badmsg", "eof", "wrapped_eof", "unexpected_eof", "canceled",
                 "error"}

\* Receive returned a message and no error
Messages == {"msg", "badmsg"}

\* What readLoop inspects of the error returned by Receive: errors.Is(err,
\* io.EOF), errors.Is(err, context.Canceled), connectErr.Code().String()
\* and the words of connectErr.Message() (err.Error() is the code followed
\* by the message)
RecvError(o) ==
    CASE o = "eof"            -> [isEOF |-> TRUE,  isCanceled |-> FALSE, code |-> "unknown",
                                  message |-> <<"EOF">>]
      [] o = "wrapped_eof"    -> [isEOF |-> FALSE, isCanceled |-> FALSE, code |-> "unknown",
                                  message |-> <<"EOF">>]
      [] o = "unexpected_eof" -> [isEOF |-> FALSE, isCanceled |-> FALSE, code |-> "unavailable",
                                  message |-> <<"unexpected", "EOF">>]
      [] o = "canceled"       -> [isEOF |-> FALSE, isCanceled |-> TRUE,  code |-> "canceled",
                                  message |-> <<"context", "canceled">>]
      [] OTHER                -> [isEOF |-> FALSE, isCanceled |-> FALSE, code |-> "unavailable",
                                  message |-> <<"connection", "refused">>]

\* strings.Contains(text, pattern), on texts and patterns split into words
Contains(text, pattern) ==
    \E i \in 0..(Len(text) - Len(pattern)) :
        \A j \in 1..Len(pattern) : text[i + j] = pattern[j]

VARIABLES
    writingState,      \* stream.writingState
    done,              \* TRUE iff channel stream.done is closed
    explicitlyClosed,  \* stream.explicitlyClosed
    hasTimeout,        \* stream.timeoutCancel # nil
    ctxCancelled,      \* the stream's context has been cancelled by timeoutCancel
    onceDone,          \* stream.startReadLoopOnce has run
    readLoopStarted,   \* stream.readLoopStarted
    closeQueueOnce,    \* stream.closeQueueOnce has run
    tqClosed,          \* stream.tq has been closed
    tq,                \* tasks queued on stream.tq and not yet run
    waiters,           \* goroutines of shutdown blocked on <-readLoopDone
    pc,                \* position of js, ww and rl
    jsMsg,             \* the message the script thread offers on writeQueueCh
    jsResult,          \* what the last script call returned or threw
    jsLast,            \* the last script call and whether close() had returned before it
    wwMsg,             \* the message writeLoop holds
    wwRet,             \* where processMessage / shutdown return to in writeLoop
    rlRes,             \* the outcome of the last Receive
    rlSeen,            \* Receive returned the cancellation of the cancelled context
    rlEv,              \* the terminal event readLoop has chosen and not yet queued
    sent,              \* ids of the messages sent on the transport, in order
    closeReqs,         \* number of connectStream.CloseRequest calls
    recvd,             \* number of responses received
    delivered,         \* events emitted to the listeners, in order
    hist,              \* history counters
    panicked,          \* "" or the panic that ended the process
    client,            \* the Client object of the script
    built,             \* the last RPC if it was new Stream(...), and what it left behind
    listeners,         \* eventListeners.listeners: event -> the values registered
    lastEmit,          \* the last call of eventListeners.emit and whom it invoked
    threw,             \* the registrations whose listener has thrown so far
    codec              \* the last value taken through the codec and what came back

vars == <<writingState, done, explicitlyClosed, hasTimeout, ctxCancelled,
          onceDone, readLoopStarted, closeQueueOnce, tqClosed, tq, waiters,
          pc, jsMsg, jsResult, jsLast, wwMsg, wwRet, rlRes, rlSeen, rlEv, sent, closeReqs,
          recvd, delivered, hist, panicked,
          client, built, listeners, lastEmit, threw, codec>>

\* variable groups, for UNCHANGED
flagVars  == <<explicitlyClosed, hasTimeout, ctxCancelled>>
readVars  == <<onceDone, readLoopStarted, rlRes, rlSeen, rlEv, recvd>>
queueVars == <<closeQueueOnce, tqClosed, tq, waiters>>
netVars   == <<sent, closeReqs>>
jsVars    == <<jsMsg, jsResult, jsLast>>
wwVars    == <<wwMsg, wwRet>>
objVars   == <<client, built, listeners, lastEmit, threw, codec>>
streamVars == <<writingState, done, flagVars, readVars, queueVars, netVars, jsVars,
                wwVars, pc, delivered, hist, panicked>>

\* readLoop has no event in hand
NoEvent == [type |-> "none", val |-> 0, cause |-> "none"]

NoMsg == [isClosing |-> FALSE, kind |-> "none", id |-> 0, late |-> FALSE]

\* message{msg: msgBytes}: kind stands for the bytes, id numbers the write()
\* call, late records that a close() call had returned before it
Payload(kind, id, late) == [isClosing |-> FALSE, kind |-> kind, id |-> id, late |-> late]

\* The script's view: a call made once a close() call has returned
AfterClose == hist.closesReturned > 0

\* message{isClosing: true}
Sentinel == [isClosing |-> TRUE, kind |-> "none", id |-> 0, late |-> FALSE]

Running == panicked = ""

\* no value has been taken through the codec yet
NoRoundTrip == [called |-> FALSE]

\* ------------------------------------------- client and listeners
\* connectionStrategy values of connectParams
Strategies == {"per-vu", "per-iteration", "per-call"}

\* the last RPC of the Client was no call of Invoke
NoInvoke == [called |-> FALSE]

\* The script thread and the goroutine of AsyncInvoke (one is followed at a
\* time)
Threads == {"js", "go"}

\* a thread that is in no call of the Client; in Invoke strategy is the
\* strategy the call acts on and h the value of c.httpClient it loaded last
NoCall == [pc |-> "idle", strategy |-> "", h |-> -1]

\* new connectrpc.Client(): no strategy, no httpClient, no connectParams;
\* status records what the script did last to the connection (never
\* connected, connected, closed).
\* iteration is state.Iteration of the VU, lastIterationID the field of the
\* Client; made is the iteration in which httpClient was created (-1: none);
\* invoked is the last RPC of the Client if that was a call of Invoke, and
\* call is where each thread is in its call of the Client
NewClient == [connectionStrategy |-> "", httpClient |-> FALSE, connectParams |-> FALSE,
              status |-> "new", iteration |-> 0, lastIterationID |-> 0, made |-> -1,
              invoked |-> NoInvoke, call |-> [t \in Threads |-> NoCall]]

\* the last RPC of the Client was no new Stream(...)
NoStream == [called |-> FALSE]

\* The events of a stream
Events == {"data", "end", "error"}

\* The values a script hands to on(event, listener): a function, a function
\* that throws, and values that are no functions
ListenerValues == {"fn", "throwing_fn", "string", "number", "null", "undefined"}

\* no call of eventListeners.emit yet
NoEmit == [n |-> 0, event |-> "none", seen |-> <<>>, calls |-> <<>>, raised |-> FALSE,
           again |-> FALSE, reg |-> "none", blocked |-> FALSE]

\* ------------------------------------------------------------ Init
\* The state ModuleInstance.stream and beginStream leave behind: write side
\* open, done open, writeLoop started and waiting in its select, readLoop
\* not started, readLoopDone never made (nil).
Init ==
    /\ writingState = opened
    /\ done = FALSE
    /\ explicitlyClosed = FALSE
    /\ hasTimeout \in BOOLEAN
    /\ ctxCancelled = FALSE
    /\ onceDone = FALSE
    /\ readLoopStarted = FALSE
    /\ closeQueueOnce = FALSE
    /\ tqClosed = FALSE
    /\ tq = <<>>
    /\ waiters = 0
    /\ pc = [js |-> "idle", ww |-> "select", rl |-> "notstarted"]
    /\ jsMsg = NoMsg
    /\ jsResult = "none"
    /\ jsLast = [op |-> "none", afterClose |-> FALSE]
    /\ wwMsg = NoMsg
    /\ wwRet = "select"
    /\ rlRes = "none"
    /\ rlSeen = FALSE
    /\ rlEv = NoEvent
    /\ sent = <<>>
    /\ closeReqs = 0
    /\ recvd = 0
    /\ delivered = <<>>
    /\ hist = [calls |-> 0, writes |-> 0, ends |-> 0, closes |-> 0, closesReturned |-> 0,
               sentinels |-> 0, doneCloses |-> 0, readStarts |-> 0,
               accepted |-> <<>>, emitted |-> <<>>, tqCloses |-> 0,
               streamEndErr |-> 0, streamEndNil |-> 0]
    /\ panicked = ""
    /\ client = NewClient
    /\ built = NoStream
    /\ listeners = [e \in Events |-> <<>>]
    /\ lastEmit = NoEmit
    /\ threw = {}
    /\ codec = NoRoundTrip

\* ------------------------------------------------------- task queue
\* A bug: a new task is put in front of the waiting ones
Queue_InFront(q, isClosed, ev) == IF isClosed THEN q ELSE <<ev>> \o q

\* tq.Queue(task): the task is appended unless the queue has been closed
Queue(q, isClosed, ev) == IF isClosed THEN q ELSE Append(q, ev)

DataEvent(n)    == [type |-> "data",  val |-> n, cause |-> "msg"]
EndEvent(c)     == [type |-> "end",   val |-> 0, cause |-> c]
ErrorEvent(c)   == [type |-> "error", val |-> 0, cause |-> c]

\* s.tq.Queue(func() error { s.eventListeners.emit(...) }) of emitData,
\* emitEnd and emitError; hist.emitted records every call of tq.Queue.
\* emitError first calls recordStreamEnd with the error (streamEndErr).
emit(ev) ==
    /\ tq' = Queue(tq, tqClosed, ev)
    /\ hist' = [hist EXCEPT !.emitted = Append(@, ev),
                            !.streamEndErr = IF ev.type = "error" THEN @ + 1 ELSE @]

\* emitData(jsonBytes)
emitData(n) == emit(DataEvent(n))

\* emitEnd()
emitEnd(c) == emit(EndEvent(c))

\* emitError(err)
emitError(c) == emit(ErrorEvent(c))

\* A bug: closeTaskQueue calls tq.Close without the sync.Once
closeQueueOnce_Unguarded == TRUE

\* closeQueueOnce.Do runs its function on the first call only
closeQueueOnce_Runs == ~closeQueueOnce

\* closeTaskQueue(): closeQueueOnce.Do(tq.Close)
closeTaskQueue ==
    IF closeQueueOnce_Runs
    THEN closeQueueOnce' = TRUE /\ tqClosed' = TRUE
    ELSE UNCHANGED <<closeQueueOnce, tqClosed>>

\* A bug: a task is run without waiting for the script thread
runTask_onAnyThread == TRUE

\* tq.Queue hands the task to the event loop, which runs it on the script
\* thread when no script call is running
runTask_onScriptThread == pc.js = "idle"

\* The event loop runs the next task of tq on the script thread: the task
\* calls eventListeners.emit for its event.  Tasks queued before tq.Close
\* are still run after it; the script thread runs a task only between two
\* script calls (it is blocked while a call waits in its select).
runTask ==
    /\ Running
    /\ runTask_onScriptThread
    /\ tq # <<>>
    /\ delivered' = Append(delivered,
          [type |-> Head(tq).type, val |-> Head(tq).val, cause |-> Head(tq).cause,
           afterClose |-> AfterClose])
    /\ tq' = Tail(tq)
    /\ UNCHANGED <<objVars, writingState, done, flagVars, readVars, closeQueueOnce,
                   tqClosed, waiters, pc, jsVars, wwVars, netVars, hist,
                   panicked>>

\* ---------------------------------------------------- script calls
\* A bug: write() does not look at writingState
write_closedCheck_Missing == FALSE

\* write: if s.writingState == closed { throw; return }
write_closedCheck == writingState = closed

\* A bug: end() does not look at writingState
end_closedCheck_Missing == FALSE

\* end: if s.writingState == closed { return }
end_closedCheck == writingState = closed

\* A bug: write() hands a value that cannot be marshalled to writeLoop
write_marshalFails_Never(v) == FALSE

\* write: msgBytes, err := json.Marshal(exported); if err != nil { throw }
write_marshalFails(v) == v = "cyclic"

\* stream.write(data), up to the select on writeQueueCh
write(v) ==
    /\ Running
    /\ pc.js = "idle"
    /\ hist.calls < MaxCalls
    /\ hist' = [hist EXCEPT !.calls = @ + 1, !.writes = @ + 1]
    /\ jsLast' = [op |-> "write", afterClose |-> AfterClose]
    /\ IF write_closedCheck
       THEN /\ jsResult' = ErrClosedForWriting
            /\ UNCHANGED <<pc, jsMsg>>
       ELSE IF write_marshalFails(v)
       THEN /\ jsResult' = ErrMarshal
            /\ UNCHANGED <<pc, jsMsg>>
       ELSE /\ jsResult' = "pending"
            /\ jsMsg' = Payload(v, hist.writes + 1, AfterClose)
            /\ pc' = [pc EXCEPT !.js = "write_select"]
    /\ UNCHANGED <<objVars, writingState, done, flagVars, readVars, queueVars, wwVars,
                   netVars, delivered, panicked>>

\* A bug: the done case of write's select returns without throwing
write_doneResult_Silent == "ok"

\* write: case <-s.done: common.Throw(rt, errors.New("stream is closed"))
write_doneResult == ErrStreamClosed

\* A bug: the select of write() has no done case
write_done_Missing == FALSE

\* write: case <-s.done of the select
write_done ==
    /\ Running
    /\ pc.js = "write_select"
    /\ done
    /\ jsResult' = write_doneResult
    /\ jsMsg' = NoMsg
    /\ pc' = [pc EXCEPT !.js = "idle"]
    /\ UNCHANGED <<objVars, writingState, done, flagVars, readVars, queueVars, jsLast,
                   wwVars, netVars, delivered, hist, panicked>>

\* stream.end(), up to the select on writeQueueCh
end ==
    /\ Running
    /\ pc.js = "idle"
    /\ hist.calls < MaxCalls
    /\ hist' = [hist EXCEPT !.calls = @ + 1, !.ends = @ + 1]
    /\ jsLast' = [op |-> "end", afterClose |-> AfterClose]
    /\ IF end_closedCheck
       THEN /\ jsResult' = "ok"
            /\ UNCHANGED <<writingState, pc, jsMsg>>
       ELSE /\ writingState' = closed
            /\ jsResult' = "pending"
            /\ jsMsg' = Sentinel
            /\ pc' = [pc EXCEPT !.js = "end_select"]
    /\ UNCHANGED <<objVars, done, flagVars, readVars, queueVars, wwVars, netVars,
                   delivered, panicked>>

\* end: case <-s.done of the select
end_done ==
    /\ Running
    /\ pc.js = "end_select"
    /\ done
    /\ jsResult' = "ok"
    /\ jsMsg' = NoMsg
    /\ pc' = [pc EXCEPT !.js = "idle"]
    /\ UNCHANGED <<objVars, writingState, done, flagVars, readVars, queueVars, jsLast,
                   wwVars, netVars, delivered, hist, panicked>>

\* A bug: close() leaves explicitlyClosed as it was
close_explicitlyClosed_Unset == explicitlyClosed

\* close: s.explicitlyClosed = true
close_explicitlyClosed == TRUE

\* stream.close(): s.explicitlyClosed = true
close ==
    /\ Running
    /\ pc.js = "idle"
    /\ hist.calls < MaxCalls
    /\ hist' = [hist EXCEPT !.calls = @ + 1, !.closes = @ + 1]
    /\ jsLast' = [op |-> "close", afterClose |-> AfterClose]
    /\ jsResult' = "pending"
    /\ explicitlyClosed' = close_explicitlyClosed
    /\ pc' = [pc EXCEPT !.js = "close_cancel"]
    /\ UNCHANGED <<objVars, writingState, done, hasTimeout, ctxCancelled, readVars,
                   queueVars, jsMsg, wwVars, netVars, delivered, panicked>>

\* stream.close(): if s.timeoutCancel != nil { s.timeoutCancel() }, then
\* the call of shutdown
close_cancel ==
    /\ Running
    /\ pc.js = "close_cancel"
    /\ ctxCancelled' = (ctxCancelled \/ hasTimeout)
    /\ pc' = [pc EXCEPT !.js = "sd_check"]
    /\ UNCHANGED <<objVars, writingState, done, explicitlyClosed, hasTimeout, readVars,
                   queueVars, jsVars, wwVars, netVars, delivered, hist, panicked>>

\* ---------------------------------------------------------- shutdown
\* Where shutdown returns to: close() returns to the script; in writeLoop
\* processMessage returns into the main loop or the drain loop, and the
\* shutdown of the sentinel path is followed by return.
AfterShutdown(t) ==
    IF t = "js" THEN "idle"
    ELSE IF wwRet = "exit" THEN "exited" ELSE wwRet

\* shutdown: recordStreamEnd(..., nil) (streamEndNil), then
\* select { case <-s.done: default: ... }, the check of done
shutdown_check(t) ==
    /\ Running
    /\ pc[t] = "sd_check"
    /\ pc' = [pc EXCEPT ![t] = IF done THEN "sd_load" ELSE "sd_close"]
    /\ hist' = [hist EXCEPT !.streamEndNil = @ + 1]
    /\ UNCHANGED <<objVars, writingState, done, flagVars, readVars, queueVars, jsVars,
                   wwVars, netVars, delivered, panicked>>

\* shutdown: close(s.done) in the default branch; closing a channel that
\* another goroutine closed since the check panics
shutdown_close(t) ==
    /\ Running
    /\ pc[t] = "sd_close"
    /\ hist' = [hist EXCEPT !.doneCloses = @ + 1]
    /\ IF done
       THEN /\ panicked' = "close of closed channel"
            /\ UNCHANGED <<done, pc>>
       ELSE /\ done' = TRUE
            /\ pc' = [pc EXCEPT ![t] = "sd_load"]
            /\ UNCHANGED panicked
    /\ UNCHANGED <<objVars, writingState, flagVars, readVars, queueVars, jsVars,
                   wwVars, netVars, delivered>>

\* shutdown: if s.readLoopStarted.Load() { go func() { <-s.readLoopDone;
\* s.closeTaskQueue() }(); return }.  readLoopDone is never made, so the
\* goroutine blocks on a nil channel for ever.  When the load returns false
\* the caller goes on to closeTaskQueue, a later step: writeLoop can start
\* readLoop, and readLoop can queue events, between the two.
shutdown_load(t) ==
    /\ Running
    /\ pc[t] = "sd_load"
    /\ IF readLoopStarted
       THEN /\ waiters' = waiters + 1
            /\ pc' = [pc EXCEPT ![t] = AfterShutdown(t)]
            /\ hist' = [hist EXCEPT !.closesReturned = IF t = "js" THEN @ + 1 ELSE @]
            /\ jsResult' = IF t = "js" THEN "ok" ELSE jsResult
       ELSE /\ pc' = [pc EXCEPT ![t] = "sd_tq"]
            /\ UNCHANGED <<waiters, hist, jsResult>>
    /\ UNCHANGED <<objVars, writingState, done, flagVars, readVars, closeQueueOnce,
                   tqClosed, tq, jsMsg, jsLast, wwVars, netVars, delivered, panicked>>

\* shutdown: s.closeTaskQueue() of the path on which readLoopStarted was
\* false, then return
shutdown_release(t) ==
    /\ Running
    /\ pc[t] = "sd_tq"
    /\ closeTaskQueue
    /\ pc' = [pc EXCEPT ![t] = AfterShutdown(t)]
    /\ hist' = [hist EXCEPT
                  !.closesReturned = IF t = "js" THEN @ + 1 ELSE @,
                  !.tqCloses = IF closeQueueOnce_Runs THEN @ + 1 ELSE @]
    /\ jsResult' = IF t = "js" THEN "ok" ELSE jsResult
    /\ UNCHANGED <<objVars, writingState, done, flagVars, readVars, tq, waiters, jsMsg,
                   jsLast, wwVars, netVars, delivered, panicked>>

\* ------------------------------------------------------- writeLoop
\* writeLoop: case msg := <-s.writeQueueCh, paired with the send of write()
\* or end() on the unbuffered channel; a closing message enters the drain
\* loop, any other is handed to processMessage.
writeLoop_recv ==
    /\ Running
    /\ pc.ww = "select"
    /\ pc.js \in {"write_select", "end_select"}
    /\ ~done
    /\ IF jsMsg.isClosing
       THEN /\ pc' = [pc EXCEPT !.js = "idle", !.ww = "drain"]
            /\ hist' = [hist EXCEPT !.sentinels = @ + 1]
            /\ UNCHANGED wwVars
       ELSE /\ pc' = [pc EXCEPT !.js = "idle", !.ww = "process"]
            /\ wwMsg' = jsMsg
            /\ wwRet' = "select"
            /\ hist' = [hist EXCEPT !.accepted = Append(@, jsMsg.id)]
    /\ jsMsg' = NoMsg
    /\ jsResult' = "ok"
    /\ UNCHANGED <<objVars, writingState, done, flagVars, readVars, queueVars, jsLast,
                   netVars, delivered, panicked>>

\* A bug: the select of writeLoop has no done case
writeLoop_done_Missing == FALSE

\* writeLoop: case <-s.done: return
writeLoop_done ==
    /\ Running
    /\ pc.ww = "select"
    /\ done
    /\ pc' = [pc EXCEPT !.ww = "exited"]
    /\ UNCHANGED <<objVars, writingState, done, flagVars, readVars, queueVars, jsVars,
                   wwVars, netVars, delivered, hist, panicked>>

\* writeLoop, the drain loop after a closing message: a pending message is
\* taken without blocking (further closing messages are skipped), and when
\* there is none CloseRequest is called, then shutdown, then return.
writeLoop_drain ==
    /\ Running
    /\ pc.ww = "drain"
    /\ IF pc.js \in {"write_select", "end_select"} /\ ~done
       THEN /\ IF jsMsg.isClosing
               THEN /\ pc' = [pc EXCEPT !.js = "idle"]
                    /\ hist' = [hist EXCEPT !.sentinels = @ + 1]
                    /\ UNCHANGED wwVars
               ELSE /\ pc' = [pc EXCEPT !.js = "idle", !.ww = "process"]
                    /\ wwMsg' = jsMsg
                    /\ wwRet' = "drain"
                    /\ hist' = [hist EXCEPT !.accepted = Append(@, jsMsg.id)]
            /\ jsMsg' = NoMsg
            /\ jsResult' = "ok"
            /\ UNCHANGED closeReqs
       ELSE /\ closeReqs' = closeReqs + 1
            /\ wwRet' = "exit"
            /\ pc' = [pc EXCEPT !.ww = "sd_check"]
            /\ UNCHANGED <<wwMsg, jsMsg, jsResult, hist>>
    /\ UNCHANGED <<objVars, writingState, done, flagVars, readVars, queueVars, jsLast,
                   sent, delivered, panicked>>

\* protojson.Unmarshal(msg.msg, requestMessage): the bytes of null/undefined
\* are empty, which is no JSON object, and the bytes of an object that does
\* not match the input schema are rejected
UnmarshalFails(m) == m.kind \in {"null", "badschema"}


\* The errors Send can return: a cancellation only once the stream's
\* context has been cancelled
SendCan(o) == o = "canceled" => ctxCancelled

\* A bug: a message overtakes the messages sent before it
Send_Overtaking(q, id) == <<id>> \o q

\* s.connectStream.Send(requestMessage) returning nil: the message follows
\* those already sent on the stream
Send(q, id) == Append(q, id)

\* processMessage: s.emitError(err); s.shutdown(); return
processMessage_afterError == "sd_check"

\* processMessage up to the start of readLoop: Unmarshal, Send, and on an
\* error emitError followed by shutdown
processMessage ==
    /\ Running
    /\ pc.ww = "process"
    /\ IF UnmarshalFails(wwMsg)
       THEN /\ emitError("encode")
            /\ pc' = [pc EXCEPT !.ww = processMessage_afterError]
            /\ UNCHANGED sent
       ELSE \E o \in SendOutcomes :
            /\ SendCan(o)
            /\ IF o = "ok"
               THEN /\ sent' = Send(sent, wwMsg.id)
                    /\ pc' = [pc EXCEPT !.ww = "start_read"]
                    /\ UNCHANGED <<tq, hist>>
               ELSE /\ emitError(IF o = "canceled" THEN "send_canceled" ELSE "send")
                    /\ pc' = [pc EXCEPT !.ww = processMessage_afterError]
                    /\ UNCHANGED sent
    /\ UNCHANGED <<objVars, writingState, done, flagVars, readVars, closeQueueOnce,
                   tqClosed, waiters, jsVars, wwVars, closeReqs, delivered,
                   panicked>>

\* A bug: the start of readLoop is not guarded by the sync.Once
startReadLoopOnce_Unguarded == FALSE

\* startReadLoopOnce.Do runs its function on the first call only
startReadLoopOnce_Ran == onceDone

\* processMessage: s.startReadLoopOnce.Do(func() { s.readLoopStarted.Store(true);
\* go s.readLoop() }), then return to writeLoop
startReadLoop ==
    /\ Running
    /\ pc.ww = "start_read"
    /\ IF startReadLoopOnce_Ran
       THEN /\ pc' = [pc EXCEPT !.ww = wwRet]
            /\ UNCHANGED <<onceDone, readLoopStarted, hist>>
       ELSE /\ onceDone' = TRUE
            /\ readLoopStarted' = TRUE
            /\ pc' = [pc EXCEPT !.ww = wwRet, !.rl = "receive"]
            /\ hist' = [hist EXCEPT !.readStarts = @ + 1]
    /\ UNCHANGED <<objVars, writingState, done, flagVars, rlRes, rlSeen, rlEv, recvd,
                   queueVars, jsVars,
                   wwVars, netVars, delivered, panicked>>

\* -------------------------------------------------------- readLoop
\* readLoop: res, err := s.connectStream.Receive()
readLoop_receive ==
    /\ Running
    /\ pc.rl = "receive"
    /\ \E o \in RecvOutcomes :
         /\ o \in Messages => recvd < MaxResp
         /\ rlRes' = o
         /\ rlSeen' = (o = "canceled" /\ ctxCancelled)
         /\ recvd' = IF o \in Messages THEN recvd + 1 ELSE recvd
    /\ pc' = [pc EXCEPT !.rl = "classify"]
    /\ UNCHANGED <<objVars, writingState, done, flagVars, onceDone, readLoopStarted, rlEv,
                   queueVars, jsVars, wwVars, netVars, delivered, hist, panicked>>

\* A bug: readLoop goes on receiving after it has emitted end or error
readLoop_afterTerminal_NoReturn == "receive"

\* readLoop: emitEnd() / emitError(err) is followed by return
readLoop_afterTerminal == "returning"

\* A bug: even the cancellation by close() does not order the write of
\* explicitlyClosed before the read in readLoop
explicitlyClosed_read_Unordered == BOOLEAN

\* readLoop reads the plain field explicitlyClosed that close() writes on
\* the script thread.  The write is ordered before the read only when
\* Receive returned the cancellation of the context that close() cancelled
\* through timeoutCancel; otherwise the two race and the read returns the
\* old or the new value.
explicitlyClosed_read ==
    IF explicitlyClosed /\ ~rlSeen THEN BOOLEAN ELSE {explicitlyClosed}

\* readLoop, if err != nil: the event emitted for the error of Receive.
\* io.EOF and any connect error whose message contains "EOF" end the
\* stream; a cancellation ends it when explicitlyClosed is set; anything
\* else is an error.
readLoop_errEvent(o, isExplicit) ==
    LET err  == RecvError(o)
        text == <<err.code>> \o err.message
    IN  IF err.isEOF
        THEN EndEvent("eof")
        ELSE IF Contains(err.message, <<"EOF">>)
        THEN EndEvent("eof")
        ELSE IF (err.isCanceled \/ Contains(text, <<"context", "canceled">>)) /\ isExplicit
        THEN EndEvent("canceled")
        ELSE IF (err.code = "canceled" \/ Contains(err.message, <<"context", "canceled">>))
                /\ isExplicit
        THEN EndEvent("canceled")
        ELSE ErrorEvent(IF o = "canceled" THEN "recv_canceled" ELSE "recv")

\* readLoop: jsonBytes, err := protojson.Marshal(res)
Marshal_fails(o) == o = "badmsg"

\* readLoop: the classification of the outcome of Receive.  A message is
\* marshalled, queued as a data event and followed by the next Receive; a
\* message that cannot be marshalled is an error.  For an error of Receive
\* readLoop reads explicitlyClosed and chooses the terminal event, which it
\* queues in a later step (emitEnd, or logger.Error and emitError): close()
\* and writeLoop can run between the read and the call of tq.Queue.
readLoop_classify ==
    /\ Running
    /\ pc.rl = "classify"
    /\ IF rlRes \in Messages
       THEN /\ IF Marshal_fails(rlRes)
               THEN /\ emitError("recv_marshal")
                    /\ pc' = [pc EXCEPT !.rl = readLoop_afterTerminal]
               ELSE /\ emitData(recvd)
                    /\ pc' = [pc EXCEPT !.rl = "receive"]
            /\ UNCHANGED rlEv
       ELSE /\ pc' = [pc EXCEPT !.rl = "emit"]
            /\ \E isExplicit \in explicitlyClosed_read :
                  rlEv' = readLoop_errEvent(rlRes, isExplicit)
            /\ UNCHANGED <<tq, hist>>
    /\ UNCHANGED <<objVars, writingState, done, flagVars, onceDone, readLoopStarted, rlRes,
                   rlSeen, recvd, closeQueueOnce, tqClosed, waiters, jsVars, wwVars, netVars,
                   delivered, panicked>>

\* readLoop: s.emitEnd() or s.emitError(err) for the event chosen, then
\* return
readLoop_emit ==
    /\ Running
    /\ pc.rl = "emit"
    /\ emit(rlEv)
    /\ rlEv' = NoEvent
    /\ pc' = [pc EXCEPT !.rl = readLoop_afterTerminal]
    /\ UNCHANGED <<objVars, writingState, done, flagVars, onceDone, readLoopStarted, rlRes,
                   rlSeen, recvd, closeQueueOnce, tqClosed, waiters, jsVars, wwVars,
                   netVars, delivered, panicked>>

\* readLoop: defer close(s.readLoopDone) runs at return; the constructor
\* never makes readLoopDone, and closing a nil channel panics
readLoop_return ==
    /\ Running
    /\ pc.rl = "returning"
    /\ pc' = [pc EXCEPT !.rl = "exited"]
    /\ panicked' = "close of nil channel"
    /\ UNCHANGED <<objVars, writingState, done, flagVars, readVars, queueVars, jsVars,
                   wwVars, netVars, delivered, hist>>

\* ------------------------------------------------------------ Next
Next ==
    \/ \E v \in Values : write(v)
    \/ write_done
    \/ end
    \/ end_done
    \/ close
    \/ close_cancel
    \/ \E t \in {"js", "ww"} : shutdown_check(t)
    \/ \E t \in {"js", "ww"} : shutdown_close(t)
    \/ \E t \in {"js", "ww"} : shutdown_load(t)
    \/ \E t \in {"js", "ww"} : shutdown_release(t)
    \/ writeLoop_recv
    \/ writeLoop_done
    \/ writeLoop_drain
    \/ processMessage
    \/ startReadLoop
    \/ readLoop_receive
    \/ readLoop_classify
    \/ readLoop_emit
    \/ readLoop_return
    \/ runTask

Spec == Init /\ [][Next]_vars

\* ------------------------------------------------- eventListeners
\* A bug: emit calls whatever was registered
AssertFunction_Any(l) == TRUE

\* sobek.AssertFunction(listener): ok only for a function
AssertFunction(l) == l \in {"fn", "throwing_fn"}

\* the call of a listener returns an error when the function throws
Throws(l) == l = "throwing_fn"

\* A bug: emit returns at the first listener that throws
emit_stopsOnError_Always == TRUE

\* emit: _, _ = fn(sobek.Undefined(), data): the error of the call is dropped
emit_stopsOnError == FALSE

\* eventListeners.emit, the loop over the listeners from position i on: the
\* positions of the listeners it calls, in order
RECURSIVE emitCalls(_, _)
emitCalls(ls, i) ==
    IF i > Len(ls) THEN <<>>
    ELSE IF ~AssertFunction(ls[i]) THEN emitCalls(ls, i + 1)
    ELSE IF Throws(ls[i]) /\ emit_stopsOnError THEN <<i>>
    ELSE <<i>> \o emitCalls(ls, i + 1)

\* the positions among those called whose listener threw
Thrown(ls, calls) == {i \in {calls[k] : k \in DOMAIN calls} : Throws(ls[i])}

\* the number of values registered for all events
Registered == Len(listeners["data"]) + Len(listeners["end"]) + Len(listeners["error"])

\* A bug: add puts the new listener in front of the earlier ones
add_InFront(ls, l) == <<l>> \o ls

\* eventListeners.add: el.listeners[event] = append(el.listeners[event], listener)
add(ls, l) == Append(ls, l)

\* stream.on(event, listener): eventListeners.add appends the value, whatever
\* it is, to the listeners of the event
on(event, l) ==
    /\ Registered < MaxListeners
    /\ listeners' = [listeners EXCEPT ![event] = add(@, l)]
    /\ UNCHANGED <<streamVars, codec, client, built, lastEmit, threw>>

\* What the first listener called by an emission does with the stream:
\* nothing, or stream.on(event, value) for the event being emitted
Registrations == {"none"} \cup ListenerValues

\* A bug: emit ranges over the registered list as it is while it runs
emit_range_Live(snapshot, live) == live

\* emit: listeners := el.listeners[event] under RLock, then the loop ranges
\* over this slice value, whatever is appended to the map meanwhile
emit_range(snapshot, live) == snapshot

\* emit: el.mu.RUnlock() comes before the loop, so no lock is held while
\* the listeners run
emit_holdsLock == FALSE

\* eventListeners.emit(event, data), as run by the task of emitData, emitEnd
\* or emitError: the listeners of the event are read once and called in the
\* order of their registration.  A listener may call stream.on from inside
\* its call: add takes the write lock, which blocks for ever if emit still
\* holds the read lock.
eventListeners_emit(event, reg) ==
    /\ lastEmit.n < MaxEmits
    /\ LET ls      == listeners[event]
           does    == reg # "none"
           blocked == does /\ emit_holdsLock
           after   == IF does /\ ~blocked
                      THEN [listeners EXCEPT ![event] = add(@, reg)]
                      ELSE listeners
           calls   == emitCalls(emit_range(ls, after[event]), 1)
           bad     == Thrown(after[event], calls)
       IN  /\ does => (emitCalls(ls, 1) # <<>> /\ Registered < MaxListeners)
           /\ lastEmit' = [n |-> lastEmit.n + 1, event |-> event, seen |-> ls,
                           calls |-> calls,
                           raised |-> (emit_stopsOnError /\ bad # {}),
                           again |-> (\E k \in DOMAIN calls : <<event, calls[k]>> \in threw),
                           reg |-> reg, blocked |-> blocked]
           /\ threw' = threw \cup {<<event, i>> : i \in bad}
           /\ listeners' = after
    /\ UNCHANGED <<streamVars, codec, client, built>>

NextListeners ==
    \/ \E e \in Events, l \in ListenerValues : on(e, l)
    \/ \E e \in Events, reg \in Registrations : eventListeners_emit(e, reg)

SpecListeners == Init /\ [][NextListeners]_vars

\* ------------------------------------------- Client and new Stream
\* The script thread has no call of the Client under way
ScriptIdle == client.call["js"].pc = "idle"

\* No call of Invoke is under way, on the script thread or on the goroutine
\* of AsyncInvoke
NoInvokeRunning ==
    \A t \in Threads : client.call[t].pc \in {"idle", "connect_params", "connect"}

\* Client.Connect(addr, params), up to c.connectionStrategy =
\* p.ConnectionStrategy: invalid parameters return before anything is
\* stored; otherwise the strategy is stored
Connect(strategy, paramsOK) ==
    /\ Running
    /\ ScriptIdle
    /\ client' =
          IF ~paramsOK THEN client
          ELSE [client EXCEPT !.connectionStrategy = strategy,
                              !.call["js"].pc = "connect_params"]
    /\ UNCHANGED <<streamVars, codec, built, listeners, lastEmit, threw>>

\* Client.Connect: c.connectParams = p, a store of its own; per-call returns
\* here, the other strategies go on to make the HTTP client
Connect_params ==
    /\ Running
    /\ client.call["js"].pc = "connect_params"
    /\ client' =
          IF client.connectionStrategy = "per-call"
          THEN [client EXCEPT !.connectParams = TRUE, !.status = "connected",
                              !.call["js"].pc = "idle"]
          ELSE [client EXCEPT !.connectParams = TRUE, !.call["js"].pc = "connect"]
    /\ UNCHANGED <<streamVars, codec, built, listeners, lastEmit, threw>>

\* Client.Connect: httpClient, err := c.createHTTPClient(p, hostname), which
\* can fail, and c.httpClient = httpClient
Connect_create(createOK) ==
    /\ Running
    /\ client.call["js"].pc = "connect"
    /\ client' =
          IF createOK
          THEN [client EXCEPT !.httpClient = TRUE, !.made = client.iteration,
                              !.status = "connected", !.call["js"].pc = "idle"]
          ELSE [client EXCEPT !.call["js"].pc = "idle"]
    /\ UNCHANGED <<streamVars, codec, built, listeners, lastEmit, threw>>

\* Client.Close(): if c.httpClient == nil { return nil }; otherwise the idle
\* connections are closed and httpClient is set to nil
Close ==
    /\ Running
    /\ ScriptIdle
    /\ client' = [client EXCEPT
                    !.httpClient = FALSE,
                    !.made = -1,
                    !.status = IF @ = "connected" THEN "closed" ELSE @]
    /\ UNCHANGED <<streamVars, codec, built, listeners, lastEmit, threw>>

\* The VU starts its next iteration: state.Iteration is incremented.  The
\* callback that AsyncInvoke registers keeps the event loop of the iteration
\* running until Invoke has returned on the goroutine.
nextIteration ==
    /\ Running
    /\ ScriptIdle
    /\ NoInvokeRunning
    /\ client.iteration < MaxIterations
    /\ client' = [client EXCEPT !.iteration = @ + 1]
    /\ UNCHANGED <<streamVars, codec, built, listeners, lastEmit, threw>>

\* client.invoke(...): Invoke runs on the script thread
Invoke ==
    /\ Running
    /\ ScriptIdle
    /\ client' = [client EXCEPT !.call["js"].pc = "invoke"]
    /\ UNCHANGED <<streamVars, codec, built, listeners, lastEmit, threw>>

\* Client.AsyncInvoke: go func() { res, err := c.Invoke(...); callback(...) }();
\* the script thread goes on while Invoke runs on the goroutine, which
\* reads and writes the fields of the Client without synchronisation
AsyncInvoke ==
    /\ Running
    /\ ScriptIdle
    /\ client.call["go"].pc = "idle"
    /\ client' = [client EXCEPT !.call["go"].pc = "invoke"]
    /\ UNCHANGED <<streamVars, codec, built, listeners, lastEmit, threw>>

\* A load of c.httpClient during Invoke on thread t, as the iteration in
\* which the client was made (-1 for nil).  The loads are plain and race
\* with the stores of the other thread: a load returns the value the field
\* has now or, merged with an earlier load of the same call, the value
\* that load returned.
Invoke_load(t) == {client.made, client.call[t].h}

\* Invoke, per-iteration: c.lastIterationID != currentIterationID
Invoke_newIteration == client.lastIterationID # client.iteration

\* Invoke has chosen the HTTP client of its call: invoked records the call
\* (used is the iteration in which the HTTP client of the call was made,
\* -1 for none) as the last RPC of the Client
Invoke_chosen(t, strategy, ok, used) ==
    [client EXCEPT !.call[t] = NoCall,
                   !.invoked = [called |-> TRUE, ok |-> ok, strategy |-> strategy,
                                iteration |-> client.iteration, used |-> used]]

\* Invoke: httpClient, err = c.createHTTPClient(c.connectParams, c.addr) of
\* the per-iteration branch; the client made is then to be stored
Invoke_create(t, createOK) ==
    IF createOK
    THEN [client EXCEPT !.call[t].pc = "store_client"]
    ELSE Invoke_chosen(t, "per-iteration", FALSE, -1)

\* Client.Invoke on thread t: c.httpClient == nil, the first operand of the
\* test whether Connect was called and the first load of the field in the
\* call; with a client the second operand is not evaluated
Invoke_begin(t) ==
    /\ Running
    /\ client.call[t].pc = "invoke"
    /\ client' = [client EXCEPT !.call[t].h = client.made,
                                !.call[t].pc = IF client.made = -1 THEN "params"
                                               ELSE "per_call"]
    /\ UNCHANGED <<streamVars, codec, built, listeners, lastEmit, threw>>

\* Invoke: c.connectParams == nil, the second operand; with neither a client
\* nor parameters the call returns 'client not connected: call connect()
\* first' before it has looked at the strategy
Invoke_params(t) ==
    /\ Running
    /\ client.call[t].pc = "params"
    /\ client' = IF ~client.connectParams
                 THEN Invoke_chosen(t, "", FALSE, -1)
                 ELSE [client EXCEPT !.call[t].pc = "per_call"]
    /\ built' = IF client'.call[t].pc = "idle" THEN NoStream ELSE built
    /\ UNCHANGED <<streamVars, codec, listeners, lastEmit, threw>>

\* Invoke: if c.connectionStrategy == "per-call", the first load of the
\* strategy, a step after the test above; per-call makes a client for the
\* call, any other value goes on to the second test of the strategy
Invoke_perCall(t, createOK) ==
    /\ Running
    /\ client.call[t].pc = "per_call"
    /\ client' =
          IF client.connectionStrategy = "per-call"
          THEN Invoke_chosen(t, "per-call", createOK,
                             IF createOK THEN client.iteration ELSE -1)
          ELSE [client EXCEPT !.call[t].pc = "strategy"]
    /\ built' = IF client'.call[t].pc = "idle" THEN NoStream ELSE built
    /\ UNCHANGED <<streamVars, codec, listeners, lastEmit, threw>>

\* Invoke: else if c.connectionStrategy == "per-iteration", a second load
\* of the strategy; any other value takes the kept client
Invoke_strategy(t) ==
    /\ Running
    /\ client.call[t].pc = "strategy"
    /\ client' = [client EXCEPT
                    !.call[t].pc = IF client.connectionStrategy = "per-iteration"
                                   THEN "load_client" ELSE "take",
                    !.call[t].strategy = client.connectionStrategy]
    /\ UNCHANGED <<streamVars, codec, built, listeners, lastEmit, threw>>

\* Invoke, per-iteration: c.httpClient == nil, the first operand of the
\* test for a new iteration
Invoke_loadClient(t) ==
    /\ Running
    /\ client.call[t].pc = "load_client"
    /\ \E v \in Invoke_load(t) :
         client' = [client EXCEPT !.call[t].h = v,
                                  !.call[t].pc = IF v = -1 THEN "close_check"
                                                 ELSE "load_iteration"]
    /\ UNCHANGED <<streamVars, codec, built, listeners, lastEmit, threw>>

\* Invoke, per-iteration: c.lastIterationID != currentIterationID, the
\* second operand; in the same iteration the kept client is taken
Invoke_loadIteration(t) ==
    /\ Running
    /\ client.call[t].pc = "load_iteration"
    /\ client' = [client EXCEPT !.call[t].pc = IF Invoke_newIteration THEN "close_check"
                                               ELSE "take"]
    /\ UNCHANGED <<streamVars, codec, built, listeners, lastEmit, threw>>

\* Invoke, per-iteration in a new iteration: if c.httpClient != nil; with
\* nil the new client is made at once
Invoke_closeCheck(t, createOK) ==
    /\ Running
    /\ client.call[t].pc = "close_check"
    /\ \E v \in Invoke_load(t) :
         client' = IF v = -1
                   THEN Invoke_create(t, createOK)
                   ELSE [client EXCEPT !.call[t].h = v, !.call[t].pc = "close_idle"]
    /\ built' = IF client'.call[t].pc = "idle" THEN NoStream ELSE built
    /\ UNCHANGED <<streamVars, codec, listeners, lastEmit, threw>>

\* Invoke, per-iteration in a new iteration:
\* c.httpClient.CloseIdleConnections(), which loads the field once more and
\* panics on nil, then the new client is made
Invoke_closeIdle(t, createOK) ==
    /\ Running
    /\ client.call[t].pc = "close_idle"
    /\ \E v \in Invoke_load(t) :
         IF v = -1
         THEN /\ panicked' = "nil pointer dereference"
              /\ UNCHANGED <<client, built>>
         ELSE /\ client' = Invoke_create(t, createOK)
              /\ built' = IF client'.call[t].pc = "idle" THEN NoStream ELSE built
              /\ UNCHANGED panicked
    /\ UNCHANGED <<writingState, done, flagVars, readVars, queueVars, netVars, jsVars,
                   wwVars, pc, delivered, hist, codec, listeners, lastEmit, threw>>

\* Invoke, per-iteration in a new iteration: c.httpClient = httpClient
Invoke_storeClient(t) ==
    /\ Running
    /\ client.call[t].pc = "store_client"
    /\ client' = [client EXCEPT !.httpClient = TRUE, !.made = client.iteration,
                                !.call[t].pc = "store_iteration"]
    /\ UNCHANGED <<streamVars, codec, built, listeners, lastEmit, threw>>

\* Invoke, per-iteration in a new iteration: c.lastIterationID =
\* currentIterationID; the call uses the client it has made
Invoke_storeIteration(t) ==
    /\ Running
    /\ client.call[t].pc = "store_iteration"
    /\ client' = [Invoke_chosen(t, "per-iteration", TRUE, client.iteration)
                    EXCEPT !.lastIterationID = client.iteration]
    /\ built' = NoStream
    /\ UNCHANGED <<streamVars, codec, listeners, lastEmit, threw>>

\* Invoke, per-iteration in the same iteration and every strategy that is
\* neither per-call nor per-iteration: httpClient = c.httpClient
Invoke_take(t) ==
    /\ Running
    /\ client.call[t].pc = "take"
    /\ \E v \in Invoke_load(t) :
         client' = Invoke_chosen(t, client.call[t].strategy, v # -1, v)
    /\ built' = NoStream
    /\ UNCHANGED <<streamVars, codec, listeners, lastEmit, threw>>

\* beginStream: the iteration in which the HTTP client of the stream was
\* made: per-call makes one for the stream, the other strategies take
\* s.client.httpClient as it is
beginStream_httpClient == IF client.connectionStrategy = "per-call" THEN client.iteration
                          ELSE client.made

\* The first argument of new Stream(...): null/undefined, an object that is
\* no Client, or the Client
ClientArgs == {"null", "other", "client"}

\* extractClient(v, rt): the error it returns, "" for none
extractClient(arg) ==
    IF arg = "null" THEN "empty ConnectRPC client"
    ELSE IF arg = "other" THEN "not a ConnectRPC client"
    ELSE IF client.connectionStrategy = "per-call"
    THEN IF ~client.connectParams
         THEN "no ConnectRPC connection parameters, you must call connect first"
         ELSE ""
    ELSE IF ~client.httpClient
         THEN "no ConnectRPC connection, you must call connect first"
         ELSE ""

\* beginStream(p), up to 'go s.writeLoop()': the error it returns, "" for none
beginStream(createOK) ==
    IF client.connectionStrategy = "per-call"
    THEN IF ~client.connectParams
         THEN "no connection parameters available for per-call strategy"
         ELSE IF ~createOK THEN "failed to create HTTP client for per-call stream"
         ELSE ""
    ELSE IF ~client.httpClient
         THEN "no ConnectRPC connection, you must call connect first"
         ELSE ""

\* ModuleInstance.stream: what a call leaves behind.  The errors of
\* extractClient, getMethodDescriptor and newCallParams are thrown before
\* the task queue is made; an error of beginStream closes the task queue
\* and is thrown; otherwise beginStream has started writeLoop.
Construct(arg, methodOK, optionsOK, createOK) ==
    LET e1 == extractClient(arg)
        e2 == beginStream(createOK)
    IN  IF e1 # "" THEN [err |-> e1, tq |-> "none", writeLoop |-> FALSE]
        ELSE IF ~methodOK
        THEN [err |-> "invalid ConnectRPC Stream's method", tq |-> "none", writeLoop |-> FALSE]
        ELSE IF ~optionsOK
        THEN [err |-> "invalid ConnectRPC Stream's parameters", tq |-> "none",
              writeLoop |-> FALSE]
        ELSE IF e2 # "" THEN [err |-> e2, tq |-> "closed", writeLoop |-> FALSE]
        ELSE [err |-> "", tq |-> "open", writeLoop |-> TRUE]

\* new connectrpc.Stream(client, method, params), which becomes the last
\* RPC of the Client; strategy, iteration and used describe the stream when
\* one was made
stream(arg, methodOK, optionsOK, createOK) ==
    /\ Running
    /\ ScriptIdle
    /\ client' = [client EXCEPT !.invoked = NoInvoke]
    /\ LET result == Construct(arg, methodOK, optionsOK, createOK)
           made   == result.err = ""
       IN  built' = [called |-> TRUE, arg |-> arg, status |-> client.status,
                     methodOK |-> methodOK, optionsOK |-> optionsOK,
                     strategy |-> IF made THEN client.connectionStrategy ELSE "",
                     iteration |-> IF made THEN client.iteration ELSE 0,
                     used |-> IF made THEN beginStream_httpClient ELSE -1,
                     result |-> result]
    /\ UNCHANGED <<streamVars, codec, listeners, lastEmit, threw>>

NextConstruct ==
    \/ \E s \in Strategies, paramsOK \in BOOLEAN : Connect(s, paramsOK)
    \/ Connect_params
    \/ \E createOK \in BOOLEAN : Connect_create(createOK)
    \/ Close
    \/ nextIteration
    \/ Invoke
    \/ AsyncInvoke
    \/ \E t \in Threads : Invoke_begin(t)
    \/ \E t \in Threads : Invoke_params(t)
    \/ \E t \in Threads, createOK \in BOOLEAN : Invoke_perCall(t, createOK)
    \/ \E t \in Threads : Invoke_strategy(t)
    \/ \E t \in Threads : Invoke_loadClient(t)
    \/ \E t \in Threads : Invoke_loadIteration(t)
    \/ \E t \in Threads, createOK \in BOOLEAN : Invoke_closeCheck(t, createOK)
    \/ \E t \in Threads, createOK \in BOOLEAN : Invoke_closeIdle(t, createOK)
    \/ \E t \in Threads : Invoke_storeClient(t)
    \/ \E t \in Threads : Invoke_storeIteration(t)
    \/ \E t \in Threads : Invoke_take(t)
    \/ \E arg \in ClientArgs, methodOK, optionsOK, createOK \in BOOLEAN :
          stream(arg, methodOK, optionsOK, createOK)

\* The Client before any stream is made of it: the stream variables are in
\* the state of a stream without timeout and stay there
InitConstruct == Init /\ ~hasTimeout

SpecConstruct == InitConstruct /\ [][NextConstruct]_vars

\* ---------------------------------------------------------- codec
\* The fields of the messages of testdata/ping/v1/ping.proto and their types
Fields == {"number", "text", "code"}

FieldType == [number |-> "int64", text |-> "string", code |-> "int32"]

\* Values of the script: undefined (the field is absent), a number, a string
Undefined == [t |-> "undefined", n |-> 0, s |-> ""]

Num(n) == [t |-> "number", n |-> n, s |-> ""]

Str(s) == [t |-> "string", n |-> 0, s |-> s]

Ints == {-7, 0, 3, 5}

\* strconv: the decimal text of an integer, and the integer of a decimal text
DecimalOf(n) == CASE n = -7 -> "-7" [] n = 0 -> "0" [] n = 3 -> "3" [] OTHER -> "5"

ParseDecimal(s) == CHOOSE n \in Ints : DecimalOf(n) = s

\* The values a field of this type can be given: absent, a number or its
\* decimal text for the integer types, a text for string
Representable(type) ==
    IF type = "string"
    THEN {Undefined, Str(""), Str("hi"), Str("5")}
    ELSE {Undefined} \cup {Num(n) : n \in Ints} \cup {Str(DecimalOf(n)) : n \in Ints}

\* The objects the schema can represent
Objects == {v \in [Fields -> UNION {Representable(FieldType[f]) : f \in Fields}] :
               \A f \in Fields : v[f] \in Representable(FieldType[f])}

\* proto3: the value of a field that is not set
DefaultOf(type) == IF type = "string" THEN Str("") ELSE Num(0)

\* processMessage: protojson.Unmarshal(msg.msg, requestMessage) of the JSON
\* of the object: an absent field keeps its default, an integer field takes
\* a JSON number or its decimal text
protojson_Unmarshal(v) ==
    [f \in Fields |->
        IF v[f] = Undefined THEN DefaultOf(FieldType[f])
        ELSE IF FieldType[f] = "string" THEN v[f]
        ELSE IF v[f].t = "string" THEN Num(ParseDecimal(v[f].s))
        ELSE v[f]]

\* protojson.Marshal with its default options leaves out every field that
\* holds the default of its type
Marshal_omitsDefault == TRUE

\* readLoop and emitData: protojson.Marshal(res), json.Unmarshal into
\* interface{} and rt.ToValue: fields holding their default are left out,
\* a 64-bit integer is written as its decimal text, a 32-bit integer as a
\* JSON number, a string as a JSON string
protojson_Marshal(msg) ==
    [f \in Fields |->
        IF msg[f] = DefaultOf(FieldType[f]) /\ Marshal_omitsDefault THEN Undefined
        ELSE IF FieldType[f] = "int64" THEN Str(DecimalOf(msg[f].n))
        ELSE msg[f]]

\* An object is written to a peer that sends the message back, and the data
\* listener gets the result; the result is written and read once more
roundTrip(v) ==
    /\ LET back == protojson_Marshal(protojson_Unmarshal(v))
       IN  codec' = [called |-> TRUE, v |-> v, wire |-> protojson_Unmarshal(v),
                     back |-> back,
                     again |-> protojson_Marshal(protojson_Unmarshal(back))]
    /\ UNCHANGED <<streamVars, client, built, listeners, lastEmit, threw>>

NextCodec == \E v \in Objects : roundTrip(v)

SpecCodec == Init /\ [][NextCodec]_vars

\* ================================================================ claims
\* Events of one type among those queued or delivered
EventsOf(q, type) == {i \in DOMAIN q : q[i].type = type}

\* No task can run any more: the process has panicked or the queue is empty
NoTaskLeft == panicked # "" \/ tq = <<>>

\* C1: once end() has been called the write side stays closed, and every
\* later write() fails with the closed-stream error of the state check,
\* hands no message to writeLoop, sends nothing and changes no stream state.
C1_WriteAfterEndRejected ==
    [][ /\ (writingState = closed => writingState' = closed)
        /\ (hist.ends > 0 => writingState = closed)
        /\ ((hist'.writes # hist.writes /\ writingState = closed) =>
              /\ jsResult' = ErrClosedForWriting
              /\ pc' = pc
              /\ UNCHANGED <<writingState, done, flagVars, readVars, queueVars,
                             jsMsg, wwVars, netVars, delivered, panicked>>) ]_vars

\* C1 witness: a write() made after end() has thrown the closed-stream error
C1_Witness ==
    /\ hist.ends > 0
    /\ jsLast.op = "write"
    /\ jsResult = ErrClosedForWriting

\* C2 (as claimed): after close() has returned every write() throws a
\* closed-stream error and its message is never accepted by writeLoop.
C2_WriteAfterCloseRejected ==
    /\ ~wwMsg.late
    /\ (jsLast.op = "write" /\ jsLast.afterClose /\ pc.js = "idle")
          => jsResult \in {ErrClosedForWriting, ErrStreamClosed}

\* C3 (as claimed): the done channel is closed at most once and no
\* shutdown call fails, however the calls of shutdown interleave.
C3_DoneClosedOnce ==
    /\ hist.doneCloses <= 1
    /\ panicked # "close of closed channel"

\* C4 (as claimed): the task queue is not closed while readLoop runs or can
\* still be started.
C4_QueueOpenWhileReading ==
    tqClosed =>
        /\ pc.rl \in {"notstarted", "exited"}
        /\ ~(pc.ww = "start_read" /\ ~onceDone)

\* The events a peer that sends n responses and then finishes gives rise to
ExpectedEvents(n) ==
    [i \in 1..(n + 1) |->
        IF i <= n THEN DataEvent(i) ELSE EndEvent("eof")]

\* The events delivered so far, without the history flag
DeliveredEvents ==
    [i \in DOMAIN delivered |->
        [type |-> delivered[i].type, val |-> delivered[i].val,
         cause |-> delivered[i].cause]]

IsDataOrEnd(e) == e.type \in {"data", "end"}

\* C5 (as claimed): when the peer has sent r1..rN and finished without
\* error, the listeners get exactly data r1..rN in order and then one end.
\* Stated for a stream that is over (readLoop has returned and no task is
\* left to run) and on which close() was never called.
C5_DataThenEnd ==
    (/\ pc.rl = "exited"
     /\ rlRes \in {"eof", "wrapped_eof"}
     /\ hist.closes = 0
     /\ NoTaskLeft)
        => SelectSeq(DeliveredEvents, IsDataOrEnd) = ExpectedEvents(recvd)

\* C6 (as claimed): no data event reaches the listeners after a close()
\* call has returned.
C6_NoDataAfterClose ==
    \A i \in DOMAIN delivered :
        delivered[i].type = "data" => ~delivered[i].afterClose

\* The stream is at rest: the script thread is idle, writeLoop has
\* returned, readLoop is not running and no task is queued
AtRest ==
    /\ pc.js = "idle"
    /\ pc.ww = "exited"
    /\ pc.rl \in {"notstarted", "exited"}
    /\ tq = <<>>

\* C7 (as claimed): every close() results in an end event and never in an
\* error event caused by the cancellation.  Stated for a stream at rest
\* after a close() call that has returned.
C7_CloseEmitsEnd ==
    /\ (AfterClose /\ AtRest) => EventsOf(delivered, "end") # {}
    /\ \A i \in DOMAIN delivered : delivered[i].cause # "send_canceled"

\* C8: end() is idempotent: at most one closing message is handed to
\* writeLoop, at most one CloseRequest is issued, and an end() call after
\* the first changes nothing of the stream.
C8_EndIdempotent ==
    /\ [](hist.sentinels <= 1 /\ closeReqs <= 1)
    /\ [][ (hist'.ends # hist.ends /\ hist.ends > 0) =>
              /\ pc' = pc
              /\ UNCHANGED <<writingState, done, flagVars, readVars, queueVars,
                             jsMsg, wwVars, netVars, delivered, panicked>> ]_vars

\* C8 witness: end() has been called twice and one closing message was taken
C8_Witness ==
    /\ hist.ends >= 2
    /\ hist.sentinels = 1
    /\ closeReqs = 1

\* C9: whatever end() and close() calls the script makes, at most one end
\* event is queued or delivered.
C9_AtMostOneEnd ==
    Cardinality(EventsOf(tq, "end")) + Cardinality(EventsOf(delivered, "end")) <= 1

\* C9 witness: close() was called twice, or after end(), and the listeners
\* got the end event
C9_Witness ==
    /\ hist.closesReturned >= 1
    /\ hist.closes + hist.ends >= 2
    /\ pc.js = "idle"
    /\ Cardinality(EventsOf(delivered, "end")) = 1

\* C10: readLoop is started at most once, and only after a successful Send
C10_ReadLoopStartedOnceAfterSend ==
    /\ hist.readStarts <= 1
    /\ (pc.rl # "notstarted" \/ readLoopStarted) =>
          (hist.readStarts = 1 /\ Len(sent) >= 1)

\* C10 witness: two messages were sent and readLoop was started once
C10_Witness ==
    /\ Len(sent) = 2
    /\ hist.readStarts = 1
    /\ pc.rl = "receive"
\* the position of x in the sequence q
Pos(q, x) == CHOOSE i \in DOMAIN q : q[i] = x

\* the elements of the sequence q
Range(q) == {q[i] : i \in DOMAIN q}

\* writeLoop has finished processMessage for the message with this id
Processed(id) == id \in Range(sent) \/ (wwMsg.id = id /\ pc.ww # "process")

\* C11: the messages are sent in the order in which write() handed them to
\* writeLoop (which is the order of the write() calls), and CloseRequest
\* is called only once every message handed over before it has been sent
\* or has failed.
C11_SentInWriteOrder ==
    /\ \A i, j \in DOMAIN hist.accepted : i < j => hist.accepted[i] < hist.accepted[j]
    /\ Range(sent) \subseteq Range(hist.accepted)
    /\ \A i, j \in DOMAIN sent :
          i < j => Pos(hist.accepted, sent[i]) < Pos(hist.accepted, sent[j])
    /\ closeReqs > 0 => \A k \in DOMAIN hist.accepted : Processed(hist.accepted[k])

\* C11 witness: two messages were handed over and sent, then end() led to
\* the half-close
C11_Witness ==
    /\ Len(sent) = 2
    /\ closeReqs = 1

\* C12: write() is a rendezvous with writeLoop: it returns normally only
\* once writeLoop has taken its message from writeQueueCh, and a message
\* waits to be taken only while the write() call that offers it is blocked,
\* so never more than one message waits and the next write() cannot return
\* before the previous message was taken.
C12_WriteIsRendezvous ==
    /\ (jsLast.op = "write" /\ pc.js = "idle" /\ jsResult = "ok")
          => hist.writes \in Range(hist.accepted)
    /\ pc.js = "write_select"
          => (jsMsg.id = hist.writes /\ jsMsg.id \notin Range(hist.accepted))
    /\ pc.js # "write_select" => jsMsg.kind = "none"
    /\ \A k \in DOMAIN hist.accepted : hist.accepted[k] <= hist.writes

\* C12 witness: the second write() has returned normally, both messages
\* having been taken by writeLoop
C12_Witness ==
    /\ jsLast.op = "write"
    /\ pc.js = "idle"
    /\ jsResult = "ok"
    /\ hist.accepted = <<1, 2>>

\* a write() or end() call is blocked in its select
InSelect == pc.js \in {"write_select", "end_select"}

\* Once done is closed a blocked call can leave its select through the
\* done case and writeLoop cannot take its message any more
DoneUnblocks ==
    (Running /\ done /\ InSelect)
        => /\ ~ENABLED writeLoop_recv
           /\ pc.js = "write_select" => ENABLED write_done
           /\ pc.js = "end_select" => ENABLED end_done

\* A call blocked in its select while done is closed leaves it with the
\* 'stream is closed' error (write) or a normal return (end)
DoneResult ==
    (done /\ InSelect /\ pc'.js # pc.js)
        => /\ pc'.js = "idle"
           /\ jsResult' = IF pc.js = "write_select" THEN ErrStreamClosed ELSE "ok"

\* C13 (as claimed): once done is closed no call blocks for ever, end()
\* returns, and every write() made while the write side is open ends in the
\* 'stream is closed' error: it reaches the select, which done releases.
C13_DoneFailsEveryWrite ==
    /\ []DoneUnblocks
    /\ [][DoneResult]_vars
    /\ [][(hist'.writes # hist.writes /\ done /\ writingState = opened)
            => pc'.js = "write_select"]_vars

\* C13 (amended): once done is closed no call blocks for ever, end() returns,
\* and every write() of a value that can be marshalled, made while the write
\* side is open, ends in the 'stream is closed' error; a value that cannot
\* be marshalled throws 'failed to marshal message' before the select.
C13_DoneFailsMarshalledWrite ==
    /\ []DoneUnblocks
    /\ [][DoneResult]_vars
    /\ [][(hist'.writes # hist.writes /\ done /\ writingState = opened)
            => \/ pc'.js = "write_select"
               \/ pc'.js = "idle" /\ jsResult' = ErrMarshal]_vars

\* C13 witness: a write() made while the write side was open has thrown
\* 'stream is closed'
C13_Witness ==
    /\ jsLast.op = "write"
    /\ pc.js = "idle"
    /\ jsResult = ErrStreamClosed
    /\ writingState = opened

\* the calls of tq.Queue made for an error event of this cause
ErrorsEmitted(c) == {i \in DOMAIN hist.emitted : hist.emitted[i] = ErrorEvent(c)}

\* writeLoop took a payload that does not match the input schema and
\* processMessage has dealt with it
EncodeFailed == wwMsg.kind = "badschema" /\ pc.ww # "process"

\* the error events of this cause that are on the task queue or were taken
\* from it: a call of tq.Queue on the closed queue puts none there
ErrorsEnqueued(c) ==
    LET q == DeliveredEvents \o tq
    IN  {i \in DOMAIN q : q[i] = ErrorEvent(c)}

\* C14 (as claimed): a payload that writeLoop took and that cannot be encoded
\* against the input schema is never sent and not processed again, exactly
\* one error event is on the task queue or was taken from it, and shutdown
\* follows: writeLoop is in shutdown before the close of done, or done is
\* closed.
C14_EncodeFailureShutsDown ==
    /\ wwMsg.kind = "badschema" => wwMsg.id \notin Range(sent)
    /\ (wwMsg.kind = "badschema" /\ pc.ww = "process") => ErrorsEnqueued("encode") = {}
    /\ EncodeFailed =>
          /\ Cardinality(ErrorsEnqueued("encode")) = 1
          /\ pc.ww \in {"sd_check", "sd_close"} \/ done
          /\ pc.ww \in {"sd_check", "sd_close", "sd_load", "sd_tq", "select", "exited"}

\* C15: a write() whose value cannot be marshalled throws within the call:
\* its message is never offered to writeLoop, and the call that throws
\* 'failed to marshal message' leaves writingState, done, the two workers,
\* the task queue and the transport as they were.
C15_MarshalFailureIsLocal ==
    /\ [](jsMsg.kind # "cyclic" /\ wwMsg.kind # "cyclic")
    /\ [][(hist'.writes # hist.writes /\ jsResult' = ErrMarshal)
            => /\ pc' = pc
               /\ UNCHANGED <<writingState, done, flagVars, readVars, queueVars,
                              jsMsg, wwVars, netVars, delivered, panicked>>
               /\ hist'.accepted = hist.accepted]_vars

\* C15 witness: the first write() threw 'failed to marshal message' and the
\* second one was taken by writeLoop and sent
C15_Witness ==
    /\ hist.accepted = <<2>>
    /\ sent = <<2>>
    /\ writingState = opened

\* The event the claim gives each outcome of Receive: end-of-stream, bare
\* or wrapped by the protocol, ends the stream; a cancellation ends it when
\* close() was called and is an error otherwise; any other error, such as
\* a connection broken in the middle of the stream, is an error.
ClaimedEvent(o, isExplicit) ==
    CASE o \in {"eof", "wrapped_eof"} -> "end"
      [] o = "canceled"               -> IF isExplicit THEN "end" ELSE "error"
      [] OTHER                        -> "error"

\* the events readLoop has handed to tq.Queue that end its loop
TerminalEmitted ==
    {i \in DOMAIN hist.emitted :
        \/ hist.emitted[i].type = "end"
        \/ hist.emitted[i].cause \in {"recv", "recv_canceled", "recv_marshal"}}

\* C16 (as claimed): readLoop turns a message into a data event and receives
\* again; any other outcome of Receive is turned into the one terminal
\* event the claim names for it, after which readLoop returns; readLoop has
\* queued exactly one terminal event when it returns.
C16_ReceiveClassification ==
    /\ [][(pc.rl = "classify" /\ pc'.rl # "classify")
            => IF rlRes \in Messages
               THEN /\ Len(hist'.emitted) = Len(hist.emitted) + 1
                    /\ hist'.emitted[Len(hist'.emitted)].type = "data"
                    /\ pc'.rl = "receive"
               ELSE /\ rlEv'.type = ClaimedEvent(rlRes, explicitlyClosed)
                    /\ pc'.rl = "emit"]_vars
    /\ [][(pc.rl = "emit" /\ pc'.rl # "emit")
            => /\ hist'.emitted = Append(hist.emitted, rlEv)
               /\ pc'.rl = "returning"]_vars
    /\ [](pc.rl \in {"returning", "exited"} => Cardinality(TerminalEmitted) = 1)

\* Send has failed for the message writeLoop took
SendFailed ==
    /\ wwMsg.kind = "valid"
    /\ pc.ww \notin {"process", "start_read"}
    /\ wwMsg.id \notin Range(sent)

\* readLoop has ended its loop on an error of Receive
RecvFailed ==
    /\ pc.rl \in {"returning", "exited"}
    /\ ErrorsEmitted("recv") # {}

\* No thread has a step left that does not start with a call of the script
Quiet ==
    /\ pc.js = "idle"
    /\ pc.ww \in {"select", "exited"}
    /\ tq = <<>>

\* A failed Send queues one error event and is followed by shutdown: done
\* is closed once writeLoop is past the close in shutdown, and when
\* shutdown has returned the task queue is closed
SendFailureShutsDown ==
    SendFailed =>
        /\ Cardinality(ErrorsEmitted("send") \cup ErrorsEmitted("send_canceled")) = 1
        /\ pc.ww \in {"sd_check", "sd_close"} \/ done
        /\ pc.ww \in {"select", "exited"} => tqClosed

\* A failed Receive is followed by shutdown: when the threads have come to
\* rest done is closed and the task queue is closed
RecvFailureShutsDown == (RecvFailed /\ Quiet) => (done /\ tqClosed)

\* C17 (as claimed): after an error on a send or on a receive an error
\* event is queued and the stream shuts down without a call of end() or
\* close(): done is closed and the task queue, the resource that keeps the
\* iteration open, is closed.
C17_AnyErrorShutsDown ==
    /\ SendFailureShutsDown
    /\ RecvFailureShutsDown

\* C18 (as claimed): readLoop never calls shutdown: no step of readLoop
\* closes done or the task queue, and once readLoop has exited on a failed
\* Receive with done open, writeLoop is still there to take and send the
\* script's messages.
C18_ReadFailureLeavesWriter ==
    /\ [][pc'.rl # pc.rl => UNCHANGED <<done, closeQueueOnce, tqClosed, waiters>>]_vars
    /\ []((RecvFailed /\ pc.rl = "exited" /\ ~done /\ pc.ww = "select")
            => /\ Running
               /\ InSelect => ENABLED writeLoop_recv)

\* The script is between calls, writeLoop has returned, readLoop was never
\* started or has returned, and every queued task has run
StreamOver ==
    /\ pc.js = "idle"
    /\ pc.ww = "exited"
    /\ pc.rl \in {"notstarted", "exited"}
    /\ tq = <<>>

\* C19 (as claimed): every stream completes shutdown: when its threads have
\* finished, done is closed and the task queue has been released.
C19_ShutdownCompletes == StreamOver => (done /\ tqClosed)

\* C20: however many times and from whichever threads shutdown is called,
\* tq.Close is called at most once, and the queue is closed exactly when it
\* was called.
C20_QueueReleasedOnce ==
    /\ hist.tqCloses <= 1
    /\ tqClosed <=> hist.tqCloses = 1

\* C20 witness: shutdown ran twice with readLoop never started, once in
\* writeLoop after the half-close and once in close(), and tq.Close was
\* called once
C20_Witness ==
    /\ closeReqs = 1
    /\ pc.ww = "exited"
    /\ hist.closesReturned = 1
    /\ ~readLoopStarted
    /\ hist.tqCloses = 1

\* A close() call has returned and nothing is left to run unless the peer
\* sends something: the script is between calls, writeLoop has returned,
\* every queued task has run, and readLoop was never started, has returned,
\* or waits in Receive on a context that nothing has cancelled
SettledAfterClose ==
    /\ hist.closesReturned > 0
    /\ pc.js = "idle"
    /\ pc.ww = "exited"
    /\ tq = <<>>
    /\ \/ pc.rl \in {"notstarted", "exited"}
       \/ pc.rl = "receive" /\ ~ctxCancelled

\* C21 (as claimed): close() returns without waiting for the peer, and after
\* it both workers exit and the task queue is released even when the peer
\* sends nothing further and the stream has no deadline: once everything
\* that can run without the peer has run, readLoop is not left in Receive
\* and the task queue is closed.
C21_CloseReleasesEverything ==
    SettledAfterClose => (pc.rl # "receive" /\ tqClosed)

\* a step of writeLoop other than taking a message from writeQueueCh
WriteLoopStep ==
    \/ writeLoop_done
    \/ writeLoop_drain
    \/ processMessage
    \/ startReadLoop
    \/ shutdown_check("ww")
    \/ shutdown_close("ww")
    \/ shutdown_load("ww")
    \/ shutdown_release("ww")

\* writeLoop has reached a case in which it is to end: it took a closing
\* message, Send failed, or done is closed
WriteLoopEnding == hist.sentinels > 0 \/ SendFailed \/ done

\* C22: once writeLoop took a closing message, Send failed or done was
\* closed, writeLoop is never blocked before it has returned (it always has
\* a step of its own, none of which goes back to waiting), it takes no
\* further message from writeQueueCh, and the message whose Send failed is
\* the last one it took.
C22_WriteLoopTerminates ==
    [](/\ (Running /\ WriteLoopEnding /\ pc.ww # "exited") => ENABLED WriteLoopStep
       /\ (SendFailed \/ done) => ~ENABLED writeLoop_recv
       /\ (WriteLoopEnding /\ pc.ww = "select") => done
       /\ SendFailed => hist.accepted[Len(hist.accepted)] = wwMsg.id)

\* C22 witness: Send failed for the first message, writeLoop has returned,
\* and the write() that followed was not taken
C22_Witness ==
    /\ SendFailed
    /\ pc.ww = "exited"
    /\ hist.writes = 2
    /\ hist.accepted = <<1>>
    /\ pc.js = "idle"
    /\ jsResult = ErrStreamClosed

\* the values of the script that are functions
IsFunction(l) == l \in {"fn", "throwing_fn"}

\* the last emission called every function registered for its event, in the
\* order of registration
AllFunctionsCalled ==
    /\ \A i \in DOMAIN lastEmit.seen :
          IsFunction(lastEmit.seen[i]) => \E k \in DOMAIN lastEmit.calls : lastEmit.calls[k] = i
    /\ \A j, k \in DOMAIN lastEmit.calls : j < k => lastEmit.calls[j] < lastEmit.calls[k]

\* C23: a listener that throws stops nothing: every emission calls all the
\* functions registered for its event, those registered after one that
\* throws and those that threw in an earlier emission included, and the
\* exception does not leave emit.
C23_ThrowingListenerIsolated ==
    lastEmit.n > 0 => (AllFunctionsCalled /\ ~lastEmit.raised)

\* C23 witness: the second emission called the listener that had thrown in
\* the first one, and the listener registered after it
C23_Witness ==
    /\ lastEmit.n = 2
    /\ lastEmit.seen = <<"throwing_fn", "fn">>
    /\ lastEmit.calls = <<1, 2>>
    /\ lastEmit.again

\* C30: a value that is no function can be registered like any other, is
\* never called, makes neither on() nor emit raise an error, and keeps no
\* function registered for the same event from being called.
C30_NonCallableIgnored ==
    /\ Registered < MaxListeners
          => \A e \in Events : \A l \in ListenerValues \ {"fn", "throwing_fn"} : ENABLED on(e, l)
    /\ lastEmit.n > 0 =>
          /\ \A k \in DOMAIN lastEmit.calls : IsFunction(lastEmit.seen[lastEmit.calls[k]])
          /\ \A i \in DOMAIN lastEmit.seen :
                lastEmit.seen[i] = "fn" => \E k \in DOMAIN lastEmit.calls : lastEmit.calls[k] = i
          /\ ~lastEmit.raised

\* C30 witness: an emission with null and a number registered around a
\* function called the function only
C30_Witness ==
    /\ lastEmit.seen = <<"null", "fn", "number">>
    /\ lastEmit.calls = <<2>>

\* C24 (as claimed): new Stream(...) throws, with writeLoop not started and
\* no open task queue left, whenever the client argument is missing or no
\* Client, the Client was never connected or has been closed, the method
\* cannot be resolved or the options are invalid.
C24_SetupErrorsFailEarly ==
    (/\ built.called
     /\ \/ built.arg # "client"
        \/ built.status # "connected"
        \/ ~built.methodOK
        \/ ~built.optionsOK)
        => /\ built.result.err # ""
           /\ ~built.result.writeLoop
           /\ built.result.tq # "open"

\* C25: explicitlyClosed is set only by close() and is never reset: in
\* every reachable state it is true exactly when close() has been called,
\* whatever write(), end(), writeLoop and readLoop have done meanwhile.
C25_OnlyCloseSetsExplicitlyClosed ==
    [](explicitlyClosed <=> hist.closes > 0)

\* close() was called after a write and an end, and both loops have
\* finished with the flag still set.
C25_Witness ==
    /\ explicitlyClosed
    /\ hist.closes > 0
    /\ hist.writes > 0
    /\ hist.ends > 0
    /\ pc.ww = "exited"
    /\ pc.rl = "exited"

\* C26: listeners are run only by the script thread's drain of the task
\* queue.  Every step that delivers an event happens while no script call is
\* running, moves neither writeLoop nor readLoop nor the script, takes the
\* oldest task of the queue and delivers that one event; so no step of a
\* worker delivers anything, and a worker's failure is never the thrown
\* result of a script call that is not waiting in its own select.
C26_DeliveryOnlyFromQueue ==
    [][/\ delivered' # delivered =>
            /\ pc.js = "idle"
            /\ pc' = pc
            /\ tq # <<>>
            /\ tq' = Tail(tq)
            /\ Len(delivered') = Len(delivered) + 1
            /\ SubSeq(delivered', 1, Len(delivered)) = delivered
            /\ delivered'[Len(delivered')].type = Head(tq).type
            /\ jsResult' = jsResult
       /\ (pc.js = "idle" /\ (pc'.ww # pc.ww \/ pc'.rl # pc.rl)) => jsResult' = jsResult
      ]_vars

\* An event was delivered while another one still waits in the queue and
\* readLoop is still running.
C26_Witness ==
    /\ Len(delivered) > 0
    /\ tq # <<>>
    /\ pc.js = "idle"
    /\ pc.rl \in {"receive", "classify"}

IsPrefix(s, t) == Len(s) <= Len(t) /\ SubSeq(t, 1, Len(s)) = s

\* C27: events are delivered in the order in which writeLoop and readLoop
\* produced them: the delivered events followed by the waiting tasks are
\* always an initial part of the produced events (only events produced after
\* the task queue was closed are missing, at the end).  Hence a delivered end
\* or error comes after every data event produced before it.
C27_DeliveryInProductionOrder ==
    [](IsPrefix(DeliveredEvents \o tq, hist.emitted))

\* A data event and then a terminal event have been delivered, the data
\* event having been produced by readLoop and the terminal one by writeLoop.
C27_Witness ==
    /\ Len(delivered) >= 2
    /\ delivered[1].type = "data"
    /\ delivered[2].type = "error"
    /\ delivered[2].cause \in {"encode", "send"}

\* The run of the scenario has come to its end: the script wrote k >= 1
\* messages and called end() once and never close(), all k messages were
\* sent in order and the request was closed, the peer answered k times and
\* then finished (Receive returned io.EOF), readLoop has returned, and the
\* workers produced the k data events and then one end.
EchoRunOver ==
    /\ hist.closes = 0
    /\ hist.ends = 1
    /\ hist.writes >= 1
    /\ sent = [i \in 1..hist.writes |-> i]
    /\ closeReqs = 1
    /\ recvd = hist.writes
    /\ rlRes = "eof"
    /\ pc.rl = "exited"
    /\ hist.emitted = [i \in 1..hist.writes |-> DataEvent(i)] \o <<EndEvent("eof")>>
    /\ NoTaskLeft

\* C28 (as claimed): at the end of write(m1), ..., write(mk), end() against
\* a peer that answers each request in order and then finishes, the
\* listeners have observed exactly the k data events, in order, then exactly
\* one end, and no error.
C28_EchoScenario ==
    EchoRunOver =>
        DeliveredEvents = [i \in 1..hist.writes |-> DataEvent(i)] \o <<EndEvent("eof")>>

IsData(e) == e.type = "data"

\* C29 (as claimed): after a half-close the read side keeps running and
\* nothing it produces is dropped: once end() was called (and never
\* close()), the request was closed by the sentinel path and readLoop has
\* finished, every data event that readLoop produced has been delivered.
C29_HalfCloseKeepsReading ==
    (/\ hist.closes = 0
     /\ hist.ends >= 1
     /\ closeReqs = 1
     /\ pc.rl = "exited"
     /\ NoTaskLeft)
        => SelectSeq(DeliveredEvents, IsData) = SelectSeq(hist.emitted, IsData)

\* C31: the listeners of each event are append-only and ordered: no step
\* removes or reorders a listener already registered (the earlier list is an
\* initial part of the later one), and every emission invokes the listeners
\* it found in the order of their registration, members of the list that is
\* registered now.
C31_ListenersAppendOnlyOrdered ==
    /\ [][\A e \in Events : IsPrefix(listeners[e], listeners'[e])]_vars
    /\ [](lastEmit.n > 0 =>
            /\ IsPrefix(lastEmit.seen, listeners[lastEmit.event])
            /\ \A j, k \in DOMAIN lastEmit.calls :
                  j < k => lastEmit.calls[j] < lastEmit.calls[k]
            /\ \A k \in DOMAIN lastEmit.calls : lastEmit.calls[k] \in DOMAIN lastEmit.seen)

\* Two listeners of one event were invoked by an emission, and a third one
\* was registered for the event afterwards.
C31_Witness ==
    /\ lastEmit.n > 0
    /\ Len(lastEmit.calls) >= 2
    /\ Len(listeners[lastEmit.event]) > Len(lastEmit.seen)

\* C32 (as claimed): a write() of null or undefined is accepted and an empty
\* message is sent for it: once processMessage has dealt with the message
\* no error event has been queued for its encoding, and writeLoop goes on to
\* the start of readLoop or back to its select, not into shutdown.
C32_NullWriteSendsEmpty ==
    (wwMsg.kind = "null" /\ pc.ww \notin {"process", "exited"} /\ hist.sentinels = 0 /\ ~done)
        => /\ ErrorsEmitted("encode") = {}
           /\ pc.ww \in {"start_read", "select"}

\* C33 (as claimed): every object the schema can represent comes back from
\* encoding and decoding equal to itself.
C33_RoundTripIdentity ==
    codec.called => codec.back = codec.v

\* C34 (as claimed): the metrics are told of the end of a stream once, with
\* the error if the stream ended in error: recordStreamEnd is never called
\* more than once for a stream, and never without the error once an error
\* event was produced.
C34_StreamEndRecordedOnce ==
    /\ hist.streamEndErr + hist.streamEndNil <= 1
    /\ EventsOf(hist.emitted, "error") # {} => hist.streamEndNil = 0

\* C35 (as claimed): with the per-iteration strategy every RPC, a unary
\* Invoke or a new Stream, uses an HTTP client that was made in the
\* iteration in which the RPC is issued.
C35_PerIterationClient ==
    /\ (client.invoked.called /\ client.invoked.ok
          /\ client.invoked.strategy = "per-iteration")
          => client.invoked.used = client.invoked.iteration
    /\ (built.called /\ built.result.err = "" /\ built.strategy = "per-iteration")
          => built.used = built.iteration

\* C36 (as claimed): no worker hands an event to tq.Queue after the task
\* queue was closed, so no event is dropped: every event produced has been
\* delivered or waits in the queue.
C36_NoEventAfterRelease ==
    DeliveredEvents \o tq = hist.emitted

IsTerminal(e) == e.type \in {"end", "error"}

\* C37 (as claimed): writeLoop and readLoop together produce at most one
\* terminal event, end or error, over the life of the stream.
C37_AtMostOneTerminal ==
    Len(SelectSeq(hist.emitted, IsTerminal)) <= 1

\* C38 (as claimed): a terminal event is the last event the listeners get:
\* no data event is delivered after an end or error event.
C38_TerminalIsLast ==
    \A i, j \in DOMAIN delivered :
        (i < j /\ IsTerminal(delivered[i])) => delivered[j].type # "data"

\* C39: close() sets explicitlyClosed before it cancels the context and
\* before it closes done: the context is cancelled only with explicitlyClosed
\* set, close() is past its first statement only with explicitlyClosed set,
\* and when readLoop classifies a cancellation that Receive returned for
\* the context cancelled by close() it reads explicitlyClosed as true and
\* chooses an end event, which is the event it then queues.
C39_CancellationCauseUnambiguous ==
    /\ [](ctxCancelled => explicitlyClosed)
    /\ [](pc.js \in {"close_cancel", "sd_check", "sd_close", "sd_load", "sd_tq"} => explicitlyClosed)
    /\ [][(pc.rl = "classify" /\ pc'.rl # "classify" /\ rlRes = "canceled" /\ rlSeen)
            => rlEv' = EndEvent("canceled")]_vars
    /\ [][(pc.rl = "emit" /\ pc'.rl # "emit" /\ rlSeen)
            => hist'.emitted = Append(hist.emitted, EndEvent("canceled"))]_vars

\* close() cancelled the context, Receive returned the cancellation and
\* readLoop has ended the stream with an end event that was delivered.
C39_Witness ==
    /\ ctxCancelled
    /\ rlRes = "canceled"
    /\ rlSeen
    /\ pc.rl \in {"returning", "exited"}
    /\ \E i \in DOMAIN delivered : delivered[i].type = "end" /\ delivered[i].cause = "canceled"

\* C40: a listener may register a listener while it is being called: the
\* emission is not blocked, the new listener is registered at the end of the
\* list, the emission in progress calls only listeners of the list it read
\* at its start (so not the new one), and every emission calls all the
\* functions of the list as it is when the emission starts, the ones
\* registered from inside earlier emissions included.
C40_RegisterInsideListener ==
    /\ [](lastEmit.n > 0 =>
            /\ ~lastEmit.blocked
            /\ \A k \in DOMAIN lastEmit.calls : lastEmit.calls[k] \in DOMAIN lastEmit.seen
            /\ AllFunctionsCalled)
    /\ [][lastEmit'.n # lastEmit.n =>
            /\ lastEmit'.seen = listeners[lastEmit'.event]
            /\ listeners'[lastEmit'.event] =
                  IF lastEmit'.reg = "none" THEN listeners[lastEmit'.event]
                  ELSE Append(listeners[lastEmit'.event], lastEmit'.reg)]_vars

\* In the second emission of an event the listener called first registered
\* a function: the emission called the two listeners it had found and not
\* the new one, which is now the third of the list.
C40_Witness ==
    /\ lastEmit.n = 2
    /\ lastEmit.reg = "fn"
    /\ lastEmit.seen = <<"fn", "fn">>
    /\ lastEmit.calls = <<1, 2>>
    /\ listeners[lastEmit.event] = <<"fn", "fn", "fn">>

=============================================================================
